---- MODULE Spec2Model ----
(***************************************************************************)
(* Model of the waste-collection backend (src/index.js): the Express       *)
(* handlers for registration, login, collection requests, reference data   *)
(* and the user list, over the three MongoDB collections "log",            *)
(* "storeCollection" and "other".  Every `await` on the store is a point   *)
(* where another request may run; a handler is split into steps exactly    *)
(* there when the interleaving can change the outcome.                     *)
(***************************************************************************)
EXTENDS Integers, Sequences, FiniteSets, TLC

VARIABLES
    users,      \* collection "log" (model User), in insertion order
    reg,        \* per register request: its position in the handler and its body
    ledger,     \* collection "storeCollection" (model Collection), in insertion order
    other,      \* collection "other" (models Center and Tutorial), in insertion order
    ref,        \* per reference-data request: its position in the handler
    now,        \* the server clock in milliseconds (Date.now / new Date())
    resp,       \* the last response sent, with the request that caused it
    lastAll     \* the last response of GET /api/collections

vars == <<users, reg, ledger, other, ref, now, resp, lastAll>>

----------------------------------------------------------------------------
(* Bounds of the model.                                                    *)

\* number of requests of one kind that may be in flight at once
NumClients == 2
\* largest number of stored collection requests
MaxLedger == 2
\* largest value of the clock
MaxClock == 1

----------------------------------------------------------------------------
(* JavaScript values as they arrive in a JSON body.                        *)

Undef == [t |-> "undefined", s |-> "", n |-> 0]
Null == [t |-> "null", s |-> "", n |-> 0]
NaN == [t |-> "NaN", s |-> "", n |-> 0]
Str(x) == [t |-> "string", s |-> x, n |-> 0]
Num(k) == [t |-> "number", s |-> "", n |-> k]

IsString(v) == v.t = "string"
IsNumber(v) == v.t = "number"

\* !v is false: undefined, null, "", 0 and NaN are falsy, all else truthy
Truthy(v) ==
    CASE v.t = "undefined" -> FALSE
      [] v.t = "null" -> FALSE
      [] v.t = "NaN" -> FALSE
      [] v.t = "string" -> v.s # ""
      [] v.t = "number" -> v.n # 0

----------------------------------------------------------------------------
(* Responses.                                                              *)

NoResp == [op |-> "none", who |-> 0, req |-> Undef, status |-> 0, body |-> Undef]

Reply(op, who, req, status, body) ==
    [op |-> op, who |-> who, req |-> req, status |-> status, body |-> body]

----------------------------------------------------------------------------
(* Auth: POST /api/auth/register, POST /api/auth/login, GET /api/users.    *)

Emails == {"a@x.com", "b@x.com"}
Salts == {"s1", "s2"}
Passwords == {Undef, Str("p1"), Str("p2")}
RegProcs == 1..NumClients

\* bcrypt.genSalt(10): the cost factor
SaltRounds == 10

\* bcrypt.hash(password, salt): the salt in clear and a digest of both
BcryptHash(password, salt) ==
    [alg |-> "bcrypt", cost |-> SaltRounds, salt |-> salt,
     digest |-> <<"H", salt, password.s>>]

\* bcrypt.compare(password, hash): hash again under the stored salt
BcryptCompare(password, hash) == BcryptHash(password, hash.salt) = hash

\* bcrypt rejects ("Illegal arguments") when the data is not a string
BcryptThrows(password) == ~IsString(password)

\* User.findOne({ email }): the first document with that email, or none
FindOne(email) ==
    IF \E i \in 1..Len(users) : users[i].email = email
    THEN LET i == CHOOSE i \in 1..Len(users) :
                    /\ users[i].email = email
                    /\ \A j \in 1..(i - 1) : users[j].email # email
         IN  <<users[i]>>
    ELSE <<>>

\* new User({ name, email, password: hashedPassword, phone })
NewUser(body, hashedPassword) ==
    [_id |-> Len(users) + 1,
     name |-> body.name.s,
     email |-> body.email,
     password |-> hashedPassword,
     phone |-> body.phone.s,
     createdAt |-> now]

\* a store whose index on email was never built
NoUniqueIndex(doc) == FALSE

\* the unique index the schema declares on email (E11000 duplicate key)
DuplicateKey(doc) == \E i \in 1..Len(users) : users[i].email = doc.email

\* the user object of the register response
RegisterView(user) ==
    [_id |-> user._id, name |-> user.name, email |-> user.email, phone |-> user.phone]

\* the user object of the login response
LoginView(user) ==
    [_id |-> user._id, name |-> user.name, email |-> user.email, phone |-> user.phone]

\* jwt.sign({ id: user._id }, "your_jwt_secret", { expiresIn: "1d" })
JwtSign(user) == [id |-> user._id, secret |-> "your_jwt_secret", expiresIn |-> "1d"]

\* a projection that was forgotten
SelectEverything(user) == user

\* .select("-password")
SelectMinusPassword(user) ==
    [f \in (DOMAIN user) \ {"password"} |-> user[f]]

Idle == [pc |-> "idle", body |-> Undef, salt |-> ""]

ServerError == [success |-> FALSE, message |-> "Server error"]
UserExists == [success |-> FALSE, message |-> "User already exists"]
InvalidCredentials == [success |-> FALSE, message |-> "Invalid credentials"]

\* register, up to `await user.save()`: the lookup, the early return, the hash
RegisterBegin(p, body, salt) ==
    /\ reg[p].pc = "idle"
    /\ IF FindOne(body.email) # <<>>
       THEN /\ resp' = Reply("register", p, body, 400, UserExists)
            /\ reg' = reg
       ELSE IF BcryptThrows(body.password)
       THEN /\ resp' = Reply("register", p, body, 500, ServerError)
            /\ reg' = reg
       ELSE /\ reg' = [reg EXCEPT ![p] = [pc |-> "save", body |-> body, salt |-> salt]]
            /\ resp' = resp
    /\ UNCHANGED <<lastAll, users, ledger, other, ref, now>>

\* register, from `await user.save()` on: the insert and the response
RegisterSave(p) ==
    /\ reg[p].pc = "save"
    /\ LET body == reg[p].body
           user == NewUser(body, BcryptHash(body.password, reg[p].salt))
       IN  IF DuplicateKey(user)
           THEN /\ resp' = Reply("register", p, body, 500, ServerError)
                /\ users' = users
           ELSE /\ users' = Append(users, user)
                /\ resp' = Reply("register", p, body, 201,
                                 [success |-> TRUE,
                                  message |-> "User registered successfully",
                                  user |-> RegisterView(user)])
    /\ reg' = [reg EXCEPT ![p] = Idle]
    /\ UNCHANGED <<lastAll, ledger, other, ref, now>>

\* login: users are never changed or removed, so the handler is one step
Login(body) ==
    /\ LET found == FindOne(body.email)
       IN  IF found = <<>>
           THEN resp' = Reply("login", 0, body, 400, InvalidCredentials)
           ELSE IF BcryptThrows(body.password)
           THEN resp' = Reply("login", 0, body, 500, ServerError)
           ELSE IF ~BcryptCompare(body.password, found[1].password)
           THEN resp' = Reply("login", 0, body, 400, InvalidCredentials)
           ELSE resp' = Reply("login", 0, body, 200,
                              [success |-> TRUE,
                               token |-> JwtSign(found[1]),
                               user |-> LoginView(found[1])])
    /\ UNCHANGED <<lastAll, users, reg, ledger, other, ref, now>>

\* GET /api/users
ListUsers ==
    /\ resp' = Reply("users", 0, Undef, 200,
                     [success |-> TRUE,
                      users |-> [i \in 1..Len(users) |-> SelectMinusPassword(users[i])]])
    /\ UNCHANGED <<lastAll, users, reg, ledger, other, ref, now>>

RegisterBodies ==
    [name : {Str("A")}, email : Emails, password : Passwords, phone : {Str("1")}]

LoginBodies == [email : Emails, password : Passwords]

NextAuth ==
    \/ \E p \in RegProcs, body \in RegisterBodies, salt \in Salts :
            RegisterBegin(p, body, salt)
    \/ \E p \in RegProcs : RegisterSave(p)
    \/ \E body \in LoginBodies : Login(body)
    \/ ListUsers

----------------------------------------------------------------------------
(* Collections: POST /api/collections, GET /api/collections,               *)
(* GET /api/collections/user/:userId.                                      *)

ValidDate == "2025-01-01T10:00:00Z"
OldDate == "1999-01-01T00:00:00Z"

\* a request body the handler accepts
Base1 ==
    [userId |-> Str("u1"), userName |-> Str("A"), wasteType |-> Str("Plastic"),
     location |-> Str("Bole"), address |-> Str("Bole Road"),
     dateTime |-> Str(ValidDate), kilograms |-> Num(3), rewardPoints |-> Num(10),
     status |-> Undef, createdAt |-> Undef]

\* another one, of a second user, with numbers as strings and its own status and createdAt
Base2 ==
    [userId |-> Str("u2"), userName |-> Str("B"), wasteType |-> Str("Paper"),
     location |-> Str("Piassa"), address |-> Str("Main Street"),
     dateTime |-> Str(ValidDate), kilograms |-> Str("4"), rewardPoints |-> Null,
     status |-> Str("completed"), createdAt |-> Str(OldDate)]

\* the values a caller may put in a field
FieldValues(f) ==
    CASE f = "dateTime" -> {Undef, Null, Str(""), Str("not a date")}
      [] f = "kilograms" ->
            {Undef, Null, Str(""), Num(0), Num(-2), Str("abc"), Str("0")}
      [] f = "rewardPoints" -> {Undef, Str("abc"), Str(""), Num(0)}
      [] f = "status" -> {Str("completed")}
      [] f = "createdAt" -> {Str(OldDate)}
      [] OTHER -> {Undef, Null, Str("")}

\* the request bodies of the model: Base2, and Base1 with one field changed
Payloads ==
    {Base1, Base2} \cup
    {[Base1 EXCEPT ![f] = v] : <<f, v>> \in
        UNION {{<<g, w>> : w \in FieldValues(g)} : g \in DOMAIN Base1}}

UserIds == {"u1", "u2", "u3"}

\* Number(v) on the strings and values of the model
NumberOf(v) ==
    CASE v.t = "number" -> v
      [] v.t = "null" -> Num(0)
      [] v.t = "string" /\ v.s = "" -> Num(0)
      [] v.t = "string" /\ v.s = "0" -> Num(0)
      [] v.t = "string" /\ v.s = "4" -> Num(4)
      [] OTHER -> NaN

\* new Date(v) on the strings of the model, in seconds since the epoch; NaN is Invalid Date
NewDate(v) ==
    CASE v.t = "string" /\ v.s = ValidDate -> Num(1735725600)
      [] v.t = "string" /\ v.s = OldDate -> Num(915148800)
      [] v.t = "number" -> v
      [] OTHER -> NaN

\* a presence check that forgets kilograms
MissingRequiredNoKilograms(body) ==
    \/ ~Truthy(body.userId)
    \/ ~Truthy(body.userName)
    \/ ~Truthy(body.wasteType)
    \/ ~Truthy(body.location)
    \/ ~Truthy(body.address)
    \/ ~Truthy(body.dateTime)

\* a presence check that also wants rewardPoints
MissingRequiredWithPoints(body) ==
    \/ ~Truthy(body.userId)
    \/ ~Truthy(body.userName)
    \/ ~Truthy(body.wasteType)
    \/ ~Truthy(body.location)
    \/ ~Truthy(body.address)
    \/ ~Truthy(body.dateTime)
    \/ ~Truthy(body.kilograms)
    \/ ~Truthy(body.rewardPoints)

\* the presence check of the handler
MissingRequired(body) ==
    \/ ~Truthy(body.userId)
    \/ ~Truthy(body.userName)
    \/ ~Truthy(body.wasteType)
    \/ ~Truthy(body.location)
    \/ ~Truthy(body.address)
    \/ ~Truthy(body.dateTime)
    \/ ~Truthy(body.kilograms)

\* a document built from the whole body: status and createdAt taken from the caller
NewCollectionFromBody(body) ==
    [_id |-> Len(ledger) + 1,
     userId |-> body.userId,
     userName |-> body.userName,
     wasteType |-> body.wasteType,
     location |-> body.location,
     address |-> body.address,
     dateTime |-> NewDate(body.dateTime),
     kilograms |-> NumberOf(body.kilograms),
     rewardPoints |-> NumberOf(body.rewardPoints),
     status |-> IF IsString(body.status) THEN body.status.s ELSE "pending",
     createdAt |-> IF IsString(body.createdAt) THEN NewDate(body.createdAt).n ELSE now]

\* new Collection({ ... }): the document before the schema casts it
NewCollection(body) ==
    [_id |-> Len(ledger) + 1,
     userId |-> body.userId,
     userName |-> body.userName,
     wasteType |-> body.wasteType,
     location |-> body.location,
     address |-> body.address,
     dateTime |-> NewDate(body.dateTime),
     kilograms |-> NumberOf(body.kilograms),
     rewardPoints |-> NumberOf(body.rewardPoints),
     status |-> "pending",
     createdAt |-> now]

\* collectionSchema on save: a Number or Date path refuses NaN, a required path refuses
\* what is missing; the schema sets no minimum
ValidationFails(doc) ==
    \/ \E f \in {"userId", "userName", "wasteType", "location", "address"} :
            ~(IsString(doc[f]) /\ doc[f].s # "")
    \/ ~IsNumber(doc.dateTime)
    \/ ~IsNumber(doc.kilograms)
    \/ ~IsNumber(doc.rewardPoints)

\* the document as stored: strings, numbers and dates of the schema's types
Stored(doc) ==
    [_id |-> doc._id,
     userId |-> doc.userId.s,
     userName |-> doc.userName.s,
     wasteType |-> doc.wasteType.s,
     location |-> doc.location.s,
     address |-> doc.address.s,
     dateTime |-> doc.dateTime.n,
     kilograms |-> doc.kilograms.n,
     rewardPoints |-> doc.rewardPoints.n,
     status |-> doc.status,
     createdAt |-> doc.createdAt]

MissingFieldsBody(body) ==
    [success |-> FALSE, message |-> "Missing required fields", receivedData |-> body]

CreateCollection(body) ==
    /\ Len(ledger) < MaxLedger
    /\ IF MissingRequired(body)
       THEN /\ resp' = Reply("create", 0, body, 400, MissingFieldsBody(body))
            /\ ledger' = ledger
       ELSE LET collection == NewCollection(body)
            IN  IF ValidationFails(collection)
                THEN /\ resp' = Reply("create", 0, body, 500,
                                      [success |-> FALSE,
                                       message |-> "Server error: Collection validation failed",
                                       stack |-> "ValidationError"])
                     /\ ledger' = ledger
                ELSE /\ ledger' = Append(ledger, Stored(collection))
                     /\ resp' = Reply("create", 0, body, 201,
                                      [success |-> TRUE,
                                       message |-> "Collection scheduled successfully",
                                       collection |-> Stored(collection)])
    /\ UNCHANGED <<lastAll, users, reg, other, ref, now>>

\* .sort({ createdAt: -1 }): the documents in an order of non-increasing createdAt;
\* the store fixes no order among documents of equal createdAt
SortByCreatedAtDesc(docs) ==
    {q \in {[i \in 1..Len(docs) |-> docs[f[i]]] : f \in Permutations(1..Len(docs))} :
        \A i \in 1..(Len(q) - 1) : q[i].createdAt >= q[i + 1].createdAt}

\* Collection.find({ userId })
FindByUser(userId) == SelectSeq(ledger, LAMBDA d : d.userId = userId)

\* what GET /api/collections may answer
ListAllResults == SortByCreatedAtDesc(ledger)

\* what GET /api/collections/user/:userId may answer
ListByUserResults(userId) == SortByCreatedAtDesc(FindByUser(userId))

ListAll ==
    /\ \E collections \in ListAllResults :
            resp' = Reply("listAll", 0, Undef, 200,
                          [success |-> TRUE, collections |-> collections])
    /\ lastAll' = resp'
    /\ UNCHANGED <<users, reg, ledger, other, ref, now>>

ListByUser(userId) ==
    /\ \E collections \in ListByUserResults(userId) :
            resp' = Reply("listByUser", 0, Str(userId), 200,
                          [success |-> TRUE, collections |-> collections])
    /\ UNCHANGED <<lastAll, users, reg, ledger, other, ref, now>>

\* the clock advances between requests, or does not
Tick ==
    /\ now < MaxClock
    /\ now' = now + 1
    /\ UNCHANGED <<lastAll, users, reg, ledger, other, ref, resp>>

NextColl ==
    \/ \E body \in Payloads : CreateCollection(body)
    \/ ListAll
    \/ \E userId \in UserIds : ListByUser(userId)
    \/ Tick

----------------------------------------------------------------------------
(* Reference data: GET /api/centers and GET /api/tutorials.  Center and    *)
(* Tutorial are two models over the one store collection "other".          *)

RefProcs == 1..NumClients
Endpoints == {"centers", "tutorials"}

\* latitude and longitude in units of 1/10000 degree
sampleCenters ==
    << [name |-> "Addis Recycling Center", address |-> "Bole Road, Addis Ababa",
        phone |-> "0911223344", latitude |-> 90222, longitude |-> 387468,
        acceptedWasteTypes |-> <<"Plastic", "Paper", "Glass", "Metal">>,
        operatingHours |-> "Mon-Fri: 8AM-5PM, Sat: 9AM-2PM"],
       [name |-> "Green Ethiopia Recycling", address |-> "Meskel Square, Addis Ababa",
        phone |-> "0922334455", latitude |-> 90127, longitude |-> 387612,
        acceptedWasteTypes |-> <<"Plastic", "Electronic", "Metal">>,
        operatingHours |-> "Mon-Sat: 9AM-6PM"],
       [name |-> "Hawassa Waste Management", address |-> "Main Street, Hawassa",
        phone |-> "0933445566", latitude |-> 70622, longitude |-> 384777,
        acceptedWasteTypes |-> <<"Plastic", "Paper", "Organic">>,
        operatingHours |-> "Mon-Fri: 8:30AM-4:30PM"] >>

sampleTutorials ==
    << [title |-> "Home Composting Basics",
        description |-> "Learn how to start composting at home with minimal equipment",
        imageUrl |-> "https://images.unsplash.com/photo-1591955506264-3f5a6834570a?ixlib=rb-4.0.3",
        videoUrl |-> "",
        steps |-> <<"Collect kitchen scraps like fruit and vegetable peels",
                    "Mix with dry materials like leaves or shredded paper",
                    "Keep your compost moist but not soggy",
                    "Turn the pile regularly to add oxygen",
                    "Harvest your compost after 3-6 months">>,
        category |-> "Composting"],
       [title |-> "Plastic Bottle Planters",
        description |-> "Turn plastic waste into beautiful plant containers",
        imageUrl |-> "https://images.unsplash.com/photo-1582131503261-fca1d1c781a8?ixlib=rb-4.0.3",
        videoUrl |-> "",
        steps |-> <<"Clean a plastic bottle thoroughly",
                    "Cut the bottle in half or create a side opening",
                    "Make drainage holes in the bottom",
                    "Decorate the outside if desired",
                    "Add soil and plants">>,
        category |-> "Upcycling"],
       [title |-> "Paper Recycling at Home",
        description |-> "Make new paper from old newspapers and documents",
        imageUrl |-> "https://images.unsplash.com/photo-1530587191325-3db32d826c18?ixlib=rb-4.0.3",
        videoUrl |-> "",
        steps |-> <<"Tear paper into small pieces",
                    "Soak in water overnight",
                    "Blend into a pulp",
                    "Spread on a screen to dry",
                    "Press and let dry completely">>,
        category |-> "Recycling"] >>

\* Center.countDocuments() and Tutorial.countDocuments(): every document of "other"
CountDocuments == Len(other)

\* insertMany(samples): the documents appended, each under a fresh _id
InsertMany(samples) ==
    other \o [i \in 1..Len(samples) |-> [_id |-> Len(other) + i, doc |-> samples[i]]]

\* Center.find() and Tutorial.find(): every document of "other"
FindOther == other

Samples(endpoint) == IF endpoint = "centers" THEN sampleCenters ELSE sampleTutorials

\* the handler up to the end of `await countDocuments()`
RefCount(endpoint, p) ==
    /\ ref[<<endpoint, p>>] = "idle"
    /\ ref' = [ref EXCEPT ![<<endpoint, p>>] =
                    IF CountDocuments = 0 THEN "insert" ELSE "find"]
    /\ UNCHANGED <<lastAll, users, reg, ledger, other, now, resp>>

\* `await insertMany(samples)`
RefInsert(endpoint, p) ==
    /\ ref[<<endpoint, p>>] = "insert"
    /\ other' = InsertMany(Samples(endpoint))
    /\ ref' = [ref EXCEPT ![<<endpoint, p>>] = "find"]
    /\ UNCHANGED <<lastAll, users, reg, ledger, now, resp>>

\* `await find()` and the response
RefFind(endpoint, p) ==
    /\ ref[<<endpoint, p>>] = "find"
    /\ resp' = Reply(endpoint, p, Undef, 200,
                     IF endpoint = "centers"
                     THEN [success |-> TRUE, centers |-> FindOther]
                     ELSE [success |-> TRUE, tutorials |-> FindOther])
    /\ ref' = [ref EXCEPT ![<<endpoint, p>>] = "idle"]
    /\ UNCHANGED <<lastAll, users, reg, ledger, other, now>>

NextRef ==
    \/ \E endpoint \in Endpoints, p \in RefProcs : RefCount(endpoint, p)
    \/ \E endpoint \in Endpoints, p \in RefProcs : RefInsert(endpoint, p)
    \/ \E endpoint \in Endpoints, p \in RefProcs : RefFind(endpoint, p)

----------------------------------------------------------------------------

Init ==
    /\ users = <<>>
    /\ reg = [p \in RegProcs |-> Idle]
    /\ ledger = <<>>
    /\ other = <<>>
    /\ ref = [k \in Endpoints \X RefProcs |-> "idle"]
    /\ now = 0
    /\ resp = NoResp
    /\ lastAll = NoResp

SpecAuth == Init /\ [][NextAuth]_vars

SpecColl == Init /\ [][NextColl]_vars

SpecRef == Init /\ [][NextRef]_vars

----------------------------------------------------------------------------
(* The claims.                                                             *)

\* C1: in every reachable state, under any interleaving of Register requests, the
\* user collection holds at most one record per email.
C1_UniqueEmail ==
    \A i, j \in 1..Len(users) : i # j => users[i].email # users[j].email

\* two registrations of one email overlapped, and the store refused the second save
C1_RaceRefused ==
    /\ resp.op = "register"
    /\ resp.status = 500
    /\ IsString(resp.req.password)
    /\ Cardinality({i \in 1..Len(users) : users[i].email = resp.req.email}) = 1

\* C2: a Register request with a well-formed body that does not create the record,
\* because a record with its email exists, is answered 400 "User already exists" and
\* with no other error, also when it is the store's unique index that refuses the write.
C2_DuplicateIdentity ==
    ( /\ resp.op = "register"
      /\ IsString(resp.req.password)
      /\ resp.status # 201
      /\ \E i \in 1..Len(users) : users[i].email = resp.req.email )
    => (resp.status = 400 /\ resp.body = UserExists)

ViewFields == {"_id", "name", "email", "phone"}
ListedFields == {"_id", "name", "email", "phone", "createdAt"}

\* C3: no response of Register, Login or the user list carries a password or its hash:
\* the user view is the stored identifier, name, email and phone and nothing else, the
\* token binds the identifier only, and a listed user is every stored field but password.
C3_PasswordSecrecy ==
    /\ resp.op \in {"register", "login"} =>
        /\ "password" \notin DOMAIN resp.body
        /\ "user" \in DOMAIN resp.body =>
            /\ DOMAIN resp.body.user = ViewFields
            /\ \E i \in 1..Len(users) :
                    resp.body.user = [f \in ViewFields |-> users[i][f]]
        /\ "token" \in DOMAIN resp.body => resp.body.token.id = resp.body.user._id
    /\ resp.op = "users" =>
        \A i \in 1..Len(resp.body.users) :
            /\ DOMAIN resp.body.users[i] = ListedFields
            /\ resp.body.users[i] = [f \in ListedFields |-> users[i][f]]

\* the user list was answered with two registered users, each stored with a hash
C3_UsersListed ==
    /\ resp.op = "users"
    /\ Len(resp.body.users) = 2
    /\ \A i \in 1..Len(users) : users[i].password.alg = "bcrypt"

RequiredFields ==
    {"userId", "userName", "wasteType", "location", "address", "dateTime", "kilograms"}

Falsy == {Undef, Null, NaN, Str(""), Num(0)}

\* C4: a Create-collection request in which one of the seven required fields is absent
\* or falsy is answered 400 "Missing required fields" with receivedData equal to the
\* request payload, and leaves the stored collection requests unchanged.
C4_MissingFields ==
    [][( /\ resp'.op = "create"
         /\ CreateCollection(resp'.req)
         /\ \E f \in RequiredFields : resp'.req[f] \in Falsy )
        => /\ resp'.status = 400
           /\ resp'.body = [success |-> FALSE,
                            message |-> "Missing required fields",
                            receivedData |-> resp'.req]
           /\ ledger' = ledger]_vars

\* a request with kilograms 0 was refused while a record was stored
C4_ZeroKilogramsRefused ==
    /\ resp.op = "create"
    /\ resp.status = 400
    /\ resp.req.kilograms = Num(0)
    /\ Len(ledger) = 1

\* the seven required fields truthy, the dateTime one that parses, the kilograms a number
\* or a numeric string
WellFormed(body) ==
    /\ \A f \in RequiredFields : body[f] \notin Falsy
    /\ body.dateTime \in {Str(ValidDate), Str(OldDate)}
    /\ body.kilograms.t = "number" \/ body.kilograms \in {Str("0"), Str("4")}

\* what Number() turns into a number: a number, null, "" or a numeric string
Coercible(v) == v.t = "number" \/ v.t = "null" \/ v \in {Str(""), Str("0"), Str("4")}

\* C5 as claimed: a well-formed Create-collection request is answered 201 for every
\* value of rewardPoints, rewardPoints left out included.
C5_AnyRewardPoints ==
    (resp.op = "create" /\ WellFormed(resp.req)) => resp.status = 201

\* C5 as amended: a well-formed Create-collection request whose rewardPoints Number()
\* turns into a number is answered 201 and adds exactly one record, of status "pending",
\* to the ledger; rewardPoints may be 0, null or "", but not left out.
C5_CreatesPending ==
    [][( /\ resp'.op = "create"
         /\ CreateCollection(resp'.req)
         /\ WellFormed(resp'.req)
         /\ Coercible(resp'.req.rewardPoints) )
        => /\ resp'.status = 201
           /\ Len(ledger') = Len(ledger) + 1
           /\ SubSeq(ledger', 1, Len(ledger)) = ledger
           /\ ledger'[Len(ledger')].status = "pending"
           /\ resp'.body.collection = ledger'[Len(ledger')]]_vars

\* a request with rewardPoints null was stored, with 0 points
C5_NullPointsStored ==
    /\ resp.op = "create"
    /\ resp.status = 201
    /\ resp.req.rewardPoints = Null
    /\ ledger[Len(ledger)].rewardPoints = 0

\* C6: every stored collection request has status "pending" and the creation time of the
\* server's clock, whatever status or createdAt its request carried, and no operation
\* changes or removes a record that is stored.
C6_PendingForever ==
    /\ [](\A i \in 1..Len(ledger) : ledger[i].status = "pending")
    /\ [][/\ Len(ledger') >= Len(ledger)
          /\ \A i \in 1..Len(ledger) : ledger'[i] = ledger[i]
          /\ \A i \in (Len(ledger) + 1)..Len(ledger') : ledger'[i].createdAt = now]_vars

\* a request that carried status "completed" and a createdAt of its own was stored as a
\* second record, "pending" and created at the clock's time
C6_CallerStatusIgnored ==
    /\ resp.op = "create"
    /\ resp.status = 201
    /\ resp.req.status = Str("completed")
    /\ resp.req.createdAt = Str(OldDate)
    /\ Len(ledger) = 2
    /\ ledger[2].status = "pending"
    /\ ledger[2].createdAt = now

\* C7: ListByUser(u) returns exactly the stored records whose userId is u, in the same
\* relative order as ListAll(), which is most recent creation time first.
C7_SameOrderAsListAll ==
    ( /\ resp.op = "listByUser"
      /\ lastAll.op = "listAll"
      /\ Len(lastAll.body.collections) = Len(ledger)
      /\ Len(resp.body.collections) = Len(FindByUser(resp.req.s)) )
    => /\ {resp.body.collections[i] : i \in 1..Len(resp.body.collections)}
            = {ledger[i] : i \in {j \in 1..Len(ledger) : ledger[j].userId = resp.req.s}}
       /\ \A i \in 1..(Len(lastAll.body.collections) - 1) :
            lastAll.body.collections[i].createdAt >= lastAll.body.collections[i + 1].createdAt
       /\ resp.body.collections
            = SelectSeq(lastAll.body.collections, LAMBDA d : d.userId = resp.req.s)

\* C8: Login with an email that has no record and Login with a registered email but a
\* wrong password get the same response, 400 "Invalid credentials" and no token; a token
\* is issued only when the email has a record and the password verifies against its hash.
C8_SameResponse ==
    resp.op = "login" =>
        LET found == FindOne(resp.req.email)
            verifies == /\ found # <<>>
                        /\ IsString(resp.req.password)
                        /\ found[1].password.digest
                                = <<"H", found[1].password.salt, resp.req.password.s>>
        IN  /\ ~verifies => (resp.status = 400 /\ resp.body = InvalidCredentials)
            /\ "token" \in DOMAIN resp.body => verifies

\* C9: every stored collection request has a non-negative weight.
C9_NonNegativeWeight ==
    \A i \in 1..Len(ledger) : ledger[i].kilograms >= 0

\* C10: from an empty store and in any order and interleaving of the two reads, each
\* reference data set is seeded exactly once: every centers response holds the three
\* sample centers and only centers, every tutorials response the three sample tutorials
\* and only tutorials.
C10_SeededOnce ==
    /\ resp.op = "centers" =>
        /\ Len(resp.body.centers) = 3
        /\ \A i \in 1..3 : resp.body.centers[i].doc = sampleCenters[i]
    /\ resp.op = "tutorials" =>
        /\ Len(resp.body.tutorials) = 3
        /\ \A i \in 1..3 : resp.body.tutorials[i].doc = sampleTutorials[i]

====
